---- MODULE Spec2Model ----
(***************************************************************************)
(* Model of pythainav/utils/_optional.py: import_optional_dependency, the  *)
(* version probe _get_version and the distutils LooseVersion comparison    *)
(* the importer relies on.                                                 *)
(*                                                                         *)
(* Strings that are parsed (version strings) are sequences of one-character*)
(* strings.  A message is the sequence of the pieces its f-string          *)
(* concatenates.                                                           *)
(***************************************************************************)
EXTENDS Integers, Sequences, FiniteSets, TLC

VARIABLES installed, pc, name, extra, raise_on_missing, on_version, result, emitted

vars == <<installed, pc, name, extra, raise_on_missing, on_version, result, emitted>>

(***************************************************************************)
(* Bounds and input domains                                                *)
(***************************************************************************)
\* largest number of dot-separated segments of an installed __version__
MaxSegs == 3

\* the segments installed version strings are built from
Segments ==
    { <<"0">>, <<"3">>, <<"2", "0">>, <<"2", "5">>, <<"1", "0", "0">>, <<"r", "c", "1">> }

RECURSIVE Join(_)
\* ".".join(segs)
Join(segs) ==
    IF Len(segs) = 0 THEN <<>>
    ELSE IF Len(segs) = 1 THEN segs[1]
    ELSE segs[1] \o <<".">> \o Join(Tail(segs))

\* every version string of at most MaxSegs segments ("" included)
VersionStrings ==
    { Join(segs) : segs \in UNION { [1..k -> Segments] : k \in 0..MaxSegs } }

\* the values the capitalized attribute takes when it is a string
AltVersionStrings ==
    { <<>>,
      <<"0", ".", "2", "0", ".", "0">>,
      <<"0", ".", "2", "5", ".", "3">>,
      <<"0", ".", "1", "0", "0", ".", "0">>,
      <<"0", ".", "2", "5", ".", "r", "c", "1">> }

Names == {"pandas", "xlrd"}
Extras == {"", "Install pandas."}
OnVersions == {"raise", "warn", "ignore", "error"}

(***************************************************************************)
(* Values                                                                  *)
(***************************************************************************)
\* an attribute (or dict.get result): missing, None, or a string
Absent == [kind |-> "absent", val |-> <<>>]
None == [kind |-> "none", val |-> <<>>]
StrVal(s) == [kind |-> "str", val |-> s]

\* pieces of a formatted message
Text(s) == [text |-> s, chars |-> <<>>]
Chars(c) == [text |-> "", chars |-> c]

\* types.ModuleType, reduced to the attributes the importer reads
Modules ==
    [ __name__ : Names,
      __version__ : {Absent, None} \cup { StrVal(s) : s \in VersionStrings },
      __VERSION__ : {Absent, None} \cup { StrVal(s) : s \in AltVersionStrings } ]

\* VERSIONS = {"pandas": "0.25.3"}
VERSIONS == [ n \in {"pandas"} |-> <<"0", ".", "2", "5", ".", "3">> ]

\* variant: every name is looked up as if it were registered
VersionsGetAnyName(n) == StrVal(VERSIONS["pandas"])

\* VERSIONS.get(name)
VersionsGet(n) == IF n \in DOMAIN VERSIONS THEN StrVal(VERSIONS[n]) ELSE None

\* truth value of an Optional[str]
Truthy(v) == v.kind = "str" /\ v.val # <<>>

(***************************************************************************)
(* distutils.version.LooseVersion                                          *)
(***************************************************************************)
Digits == {"0", "1", "2", "3", "4", "5", "6", "7", "8", "9"}
LowerSeq ==
    << "a", "b", "c", "d", "e", "f", "g", "h", "i", "j", "k", "l", "m",
       "n", "o", "p", "q", "r", "s", "t", "u", "v", "w", "x", "y", "z" >>
Lower == { LowerSeq[i] : i \in DOMAIN LowerSeq }

\* the alternative of component_re a character belongs to
CharClass(c) ==
    IF c \in Digits THEN "digit"
    ELSE IF c \in Lower THEN "lower"
    ELSE IF c = "." THEN "dot"
    ELSE "other"

RECURSIVE RunEnd(_, _, _)
\* first index after the maximal run of class cls that starts at i
RunEnd(s, i, cls) ==
    IF i > Len(s) \/ CharClass(s[i]) # cls THEN i ELSE RunEnd(s, i + 1, cls)

RECURSIVE SplitFrom(_, _)
\* [x for x in component_re.split(vstring) if x and x != '.'], from index i
SplitFrom(s, i) ==
    IF i > Len(s) THEN <<>>
    ELSE IF s[i] = "." THEN SplitFrom(s, i + 1)
    ELSE LET j == RunEnd(s, i, CharClass(s[i]))
         IN  <<SubSeq(s, i, j - 1)>> \o SplitFrom(s, j)

DigitValue(c) == CHOOSE d \in 0..9 : <<"0", "1", "2", "3", "4", "5", "6", "7", "8", "9">>[d + 1] = c

RECURSIVE ToInt(_)
\* int(obj) of a run of digits
ToInt(tok) ==
    IF Len(tok) = 0 THEN 0
    ELSE 10 * ToInt(SubSeq(tok, 1, Len(tok) - 1)) + DigitValue(tok[Len(tok)])

\* components[i] = int(obj), or obj unchanged on ValueError
Component(tok) ==
    IF tok[1] \in Digits THEN [isint |-> TRUE, n |-> ToInt(tok), s |-> <<>>]
    ELSE [isint |-> FALSE, n |-> 0, s |-> tok]

\* LooseVersion.parse: the component list
Parse(vstring) ==
    LET toks == SplitFrom(vstring, 1)
    IN  [ i \in 1..Len(toks) |-> Component(toks[i]) ]

\* LooseVersion(vstring): parse runs only for a non-empty string, so an
\* empty one leaves the object without a version attribute
LooseVersion(vstring) ==
    IF vstring # <<>> THEN [hasversion |-> TRUE, version |-> Parse(vstring)]
    ELSE [hasversion |-> FALSE, version |-> <<>>]

CodePoint(c) ==
    IF c \in Digits THEN 48 + DigitValue(c)
    ELSE IF c = "." THEN 46
    ELSE 96 + (CHOOSE i \in DOMAIN LowerSeq : LowerSeq[i] = c)

\* index of the first position where two lists differ, 0 when one is a
\* prefix of the other
FirstDiff(a, b) ==
    LET m == IF Len(a) < Len(b) THEN Len(a) ELSE Len(b)
        d == { i \in 1..m : a[i] # b[i] }
    IN  IF d = {} THEN 0 ELSE CHOOSE i \in d : \A j \in d : i <= j

\* str < str
StrLess(a, b) ==
    LET k == FirstDiff(a, b)
    IN  IF k = 0 THEN Len(a) < Len(b) ELSE CodePoint(a[k]) < CodePoint(b[k])

\* list < list of components: "True", "False", or "TypeError" when the
\* first differing pair is an int and a str
ListLess(a, b) ==
    LET k == FirstDiff(a, b)
    IN  IF k = 0 THEN (IF Len(a) < Len(b) THEN "True" ELSE "False")
        ELSE IF a[k].isint # b[k].isint THEN "TypeError"
        ELSE IF a[k].isint THEN (IF a[k].n < b[k].n THEN "True" ELSE "False")
        ELSE (IF StrLess(a[k].s, b[k].s) THEN "True" ELSE "False")

\* variant: <= in place of <
LooseLessOrEqual(version, minimum_version) ==
    LET self == LooseVersion(version)
        other == LooseVersion(minimum_version)
    IN  IF ~self.hasversion \/ ~other.hasversion THEN "AttributeError"
        ELSE IF self.version = other.version THEN "True"
        ELSE ListLess(self.version, other.version)

\* LooseVersion(version) < minimum_version, through Version.__lt__ and
\* LooseVersion._cmp: "True", "False", or the error the comparison raises
LooseLess(version, minimum_version) ==
    LET self == LooseVersion(version)
        other == LooseVersion(minimum_version)
    IN  IF ~self.hasversion \/ ~other.hasversion THEN "AttributeError"
        ELSE IF self.version = other.version THEN "False"
        ELSE ListLess(self.version, other.version)

(***************************************************************************)
(* _optional.py                                                            *)
(***************************************************************************)
\* variant: the capitalized attribute is probed first
ProbeVersionCapitalFirst(module) ==
    LET version == IF module.__VERSION__.kind = "absent" THEN None ELSE module.__VERSION__
    IN  IF version = None
        THEN (IF module.__version__.kind = "absent" THEN None ELSE module.__version__)
        ELSE version

\* getattr(module, "__version__", None), then "__VERSION__" when that is None
ProbeVersion(module) ==
    LET version == IF module.__version__.kind = "absent" THEN None ELSE module.__version__
    IN  IF version = None
        THEN (IF module.__VERSION__.kind = "absent" THEN None ELSE module.__VERSION__)
        ELSE version

\* "Can't determine version for {module.__name__}"
CantDetermineMsg(module) == << Text("Can't determine version for "), Text(module.__name__) >>

\* variant: an undeterminable version counts as "0" instead of raising
_get_versionLenient(module) ==
    LET version == ProbeVersion(module)
    IN  IF version = None
        THEN [raised |-> FALSE, version |-> <<"0">>, msg |-> <<>>]
        ELSE [raised |-> FALSE, version |-> version.val, msg |-> <<>>]

\* _get_version: the version string, or the ImportError
_get_version(module) ==
    LET version == ProbeVersion(module)
    IN  IF version = None
        THEN [raised |-> TRUE, version |-> <<>>, msg |-> CantDetermineMsg(module)]
        ELSE [raised |-> FALSE, version |-> version.val, msg |-> <<>>]

\* "Missing optional dependency '{name}'. {extra} Use pip or conda to install {name}."
MissingMsg(n, e) ==
    << Text("Missing optional dependency '"), Text(n), Text("'. "), Text(e), Text(" "),
       Text("Use pip or conda to install "), Text(n), Text(".") >>

\* variant: the message names the required version only
TooOldMsgRequiredOnly(n, minimum_version, version) ==
    << Text("Pandas requires version '"), Chars(minimum_version), Text("' or newer of '"),
       Text(n), Text("'.") >>

\* "Pandas requires version '{minimum_version}' or newer of '{name}' (version '{version}' currently installed)."
TooOldMsg(n, minimum_version, version) ==
    << Text("Pandas requires version '"), Chars(minimum_version), Text("' or newer of '"),
       Text(n), Text("' "), Text("(version '"), Chars(version),
       Text("' currently installed).") >>

\* outcomes of a call; module is {} or the singleton of the returned handle
Returned(m) == [kind |-> "module", module |-> {m}, msg |-> <<>>, warned |-> <<>>]
ReturnedNone(w) == [kind |-> "None", module |-> {}, msg |-> <<>>, warned |-> w]
Raised(k, msg) == [kind |-> k, module |-> {}, msg |-> msg, warned |-> <<>>]

\* importlib.import_module(name): the set of modules it can return, empty
\* when the import raises ImportError
ImportModule(env, n) == { m \in env : m.__name__ = n }

\* variant: raise_on_missing is not consulted
OnMissingAlwaysRaise(msg, rom) == Raised("ImportError", msg)

\* the except ImportError branch
OnMissing(msg, rom) ==
    IF rom THEN Raised("ImportError", msg) ELSE ReturnedNone(<<>>)

\* variant: "warn" warns and falls through to "return module"
OnTooOldWarnFallsThrough(module, n, ov, minimum_version, version) ==
    IF ov \notin {"warn", "raise", "ignore"} THEN Raised("AssertionError", <<>>)
    ELSE LET msg == TooOldMsg(n, minimum_version, version)
         IN  IF ov = "warn"
             THEN [kind |-> "module", module |-> {module}, msg |-> <<>>,
                   warned |-> << [category |-> "UserWarning", message |-> msg] >>]
             ELSE IF ov = "raise" THEN Raised("ImportError", msg)
             ELSE Returned(module)

\* variant: "ignore" is handled like "warn" without the warning
OnTooOldIgnoreReturnsNone(module, n, ov, minimum_version, version) ==
    IF ov \notin {"warn", "raise", "ignore"} THEN Raised("AssertionError", <<>>)
    ELSE LET msg == TooOldMsg(n, minimum_version, version)
         IN  IF ov = "warn"
             THEN ReturnedNone(<< [category |-> "UserWarning", message |-> msg] >>)
             ELSE IF ov = "raise" THEN Raised("ImportError", msg)
             ELSE ReturnedNone(<<>>)

\* variant: no assert, so an unknown on_version falls through to "return module"
OnTooOldNoAssert(module, n, ov, minimum_version, version) ==
    LET msg == TooOldMsg(n, minimum_version, version)
    IN  IF ov = "warn"
        THEN ReturnedNone(<< [category |-> "UserWarning", message |-> msg] >>)
        ELSE IF ov = "raise" THEN Raised("ImportError", msg)
        ELSE Returned(module)

\* the body of "if LooseVersion(version) < minimum_version"
OnTooOld(module, n, ov, minimum_version, version) ==
    IF ov \notin {"warn", "raise", "ignore"} THEN Raised("AssertionError", <<>>)
    ELSE LET msg == TooOldMsg(n, minimum_version, version)
         IN  IF ov = "warn"
             THEN ReturnedNone(<< [category |-> "UserWarning", message |-> msg] >>)
             ELSE IF ov = "raise" THEN Raised("ImportError", msg)
             ELSE Returned(module)

\* the body of "if minimum_version"
CheckVersion(module, n, ov, minimum_version) ==
    LET got == _get_version(module)
    IN  IF got.raised THEN Raised("ImportError", got.msg)
        ELSE LET lt == LooseLess(got.version, minimum_version)
             IN  IF lt = "True" THEN OnTooOld(module, n, ov, minimum_version, got.version)
                 ELSE IF lt = "False" THEN Returned(module)
                 ELSE Raised(lt, <<>>)

\* the outcome of import_optional_dependency(n, e, rom, ov) in environment env
Outcome(env, n, e, rom, ov) ==
    LET msg == MissingMsg(n, e)
        found == ImportModule(env, n)
    IN  IF found = {} THEN OnMissing(msg, rom)
        ELSE LET module == CHOOSE m \in found : TRUE
                 minimum_version == VersionsGet(n)
             IN  IF Truthy(minimum_version)
                 THEN CheckVersion(module, n, ov, minimum_version.val)
                 ELSE Returned(module)

(***************************************************************************)
(* State machine                                                           *)
(***************************************************************************)
Init ==
    /\ installed \in {{}} \cup { {m} : m \in Modules }
    /\ pc = "idle"
    /\ name = ""
    /\ extra = ""
    /\ raise_on_missing = TRUE
    /\ on_version = "raise"
    /\ result = [kind |-> "", module |-> {}, msg |-> <<>>]
    /\ emitted = <<>>

\* One call.  The function keeps nothing between calls and VERSIONS is never
\* written, so a behaviour is one environment and one call made in it.
import_optional_dependency(n, e, rom, ov) ==
    LET out == Outcome(installed, n, e, rom, ov)
    IN  /\ pc = "idle"
        /\ name' = n
        /\ extra' = e
        /\ raise_on_missing' = rom
        /\ on_version' = ov
        /\ result' = [kind |-> out.kind, module |-> out.module, msg |-> out.msg]
        /\ emitted' = out.warned
        /\ pc' = "done"
        /\ UNCHANGED installed

Next ==
    \E n \in Names, e \in Extras, rom \in BOOLEAN, ov \in OnVersions :
        import_optional_dependency(n, e, rom, ov)

Spec == Init /\ [][Next]_vars

(***************************************************************************)
(* Vocabulary of the properties                                            *)
(***************************************************************************)
\* the numeric segments with the number each one denotes
NumericSegments ==
    { [s |-> <<"0">>, n |-> 0], [s |-> <<"3">>, n |-> 3], [s |-> <<"2", "0">>, n |-> 20],
      [s |-> <<"2", "5">>, n |-> 25], [s |-> <<"1", "0", "0">>, n |-> 100] }

\* every dotted all-numeric version string, with the numbers it denotes
NumericForms ==
    { [str |-> Join([i \in DOMAIN f |-> f[i].s]), nums |-> [i \in DOMAIN f |-> f[i].n]] :
        f \in UNION { [1..k -> NumericSegments] : k \in 1..MaxSegs } }

RECURSIVE NumLess(_, _)
\* component-wise numeric ordering of two sequences of numbers
NumLess(a, b) ==
    IF Len(b) = 0 THEN FALSE
    ELSE IF Len(a) = 0 THEN TRUE
    ELSE IF Head(a) # Head(b) THEN Head(a) < Head(b)
    ELSE NumLess(Tail(a), Tail(b))

\* the registry minimum 0.25.3 as numbers
MinimumNums == <<0, 25, 3>>

AtLeastMinimum == { f.str : f \in { g \in NumericForms : ~NumLess(g.nums, MinimumNums) } }
BelowMinimum == { f.str : f \in { g \in NumericForms : NumLess(g.nums, MinimumNums) } }

Done == pc = "done"
Imported == Done /\ \E m \in installed : m.__name__ = name
ImportFailed == Done /\ ~\E m \in installed : m.__name__ = name
Registered == name \in DOMAIN VERSIONS
Handle == CHOOSE m \in installed : TRUE

\* the installed version: __version__ when it is a string, else __VERSION__
Reported ==
    IF Handle.__version__.kind = "str" THEN Handle.__version__
    ELSE IF Handle.__VERSION__.kind = "str" THEN Handle.__VERSION__
    ELSE None

MsgHas(msg, piece) == \E i \in DOMAIN msg : msg[i] = piece

\* v is below the registry minimum: numerically, or by the loose comparison
IsUnder(v) == v \in BelowMinimum \/ LooseLess(v, VERSIONS["pandas"]) = "True"

\* v is at or above the registry minimum
IsEnough(v) == v \in AtLeastMinimum \/ LooseLess(v, VERSIONS["pandas"]) = "False"

\* a registered module was imported and reports a version below the minimum
UnderVersion == Imported /\ Registered /\ Reported.kind = "str" /\ IsUnder(Reported.val)

ReturnedHandle == result = [kind |-> "module", module |-> {Handle}, msg |-> <<>>]

\* the message names the required and the installed version
NamesBothVersions(msg, v) == MsgHas(msg, Chars(VERSIONS["pandas"])) /\ MsgHas(msg, Chars(v))

(***************************************************************************)
(* Properties                                                              *)
(***************************************************************************)
\* C1: a registered module whose installed version is numerically at or above
\* the minimum is returned as the handle, with no error and no warning,
\* whatever raise_on_missing and on_version are.
C1_EnoughReturnsModule ==
    (Imported /\ Registered /\ Reported.kind = "str" /\ Reported.val \in AtLeastMinimum)
        => (ReturnedHandle /\ emitted = <<>>)

C1_Witness ==
    /\ Imported /\ Registered
    /\ Handle.__version__ = StrVal(<<"0", ".", "1", "0", "0", ".", "0">>)
    /\ on_version = "warn" /\ ~raise_on_missing
    /\ ReturnedHandle

\* C2: under-version with on_version = "raise" raises an ImportError whose
\* message contains the minimum and the installed version; nothing is returned
\* and no warning is emitted.
C2_UnderRaise ==
    (UnderVersion /\ on_version = "raise")
        => /\ result.kind = "ImportError"
           /\ NamesBothVersions(result.msg, Reported.val)
           /\ result.module = {}
           /\ emitted = <<>>

C2_Witness ==
    /\ UnderVersion /\ on_version = "raise" /\ ~raise_on_missing
    /\ Reported.val = <<"0", ".", "2", "0", ".", "0">>
    /\ result.kind = "ImportError"

\* C3: under-version with on_version = "warn" returns None and emits exactly
\* one warning carrying the required-vs-installed message; no other outcome
\* emits a warning.
C3_UnderWarn ==
    /\ (UnderVersion /\ on_version = "warn")
          => /\ result = [kind |-> "None", module |-> {}, msg |-> <<>>]
             /\ Len(emitted) = 1
             /\ emitted[1].category = "UserWarning"
             /\ NamesBothVersions(emitted[1].message, Reported.val)
    /\ (emitted # <<>>) => (UnderVersion /\ on_version = "warn")

C3_Witness ==
    /\ UnderVersion /\ on_version = "warn"
    /\ Reported.val = <<"0", ".", "2", "5", ".", "0">>
    /\ Len(emitted) = 1 /\ result.kind = "None"

\* C4: under-version with on_version = "ignore" returns the imported handle,
\* without an error and without a warning.
C4_UnderIgnore ==
    (UnderVersion /\ on_version = "ignore") => (ReturnedHandle /\ emitted = <<>>)

C4_Witness ==
    /\ UnderVersion /\ on_version = "ignore"
    /\ Reported.val = <<"0", ".", "3">>
    /\ ReturnedHandle

\* C5: an importable name that is not in the registry yields the handle,
\* whatever its version attributes and on_version are.
C5_UnregisteredReturnsModule ==
    (Imported /\ ~Registered) => (ReturnedHandle /\ emitted = <<>>)

C5_Witness ==
    /\ Imported /\ ~Registered
    /\ Handle.__version__ = Absent /\ Handle.__VERSION__ = Absent
    /\ on_version = "raise"
    /\ ReturnedHandle

\* C6: when the import fails, raise_on_missing alone decides: an ImportError
\* with the "Missing optional dependency" message, or None; never a warning.
C6_MissingFollowsFlag ==
    ImportFailed =>
        /\ emitted = <<>>
        /\ raise_on_missing =>
              result = [ kind |-> "ImportError", module |-> {},
                         msg |-> << Text("Missing optional dependency '"), Text(name),
                                    Text("'. "), Text(extra), Text(" "),
                                    Text("Use pip or conda to install "), Text(name),
                                    Text(".") >> ]
        /\ ~raise_on_missing => result = [kind |-> "None", module |-> {}, msg |-> <<>>]

C6_Witness ==
    /\ ImportFailed /\ Registered /\ installed # {}
    /\ ~raise_on_missing /\ on_version = "error" /\ extra # ""
    /\ result.kind = "None"

\* C7: a registered module that exposes neither version attribute makes the
\* call raise the "can't determine version" ImportError under every policy.
C7_NoVersionRaises ==
    (Imported /\ Registered /\ Handle.__version__.kind # "str" /\ Handle.__VERSION__.kind # "str")
        => /\ result = [ kind |-> "ImportError", module |-> {},
                         msg |-> << Text("Can't determine version for "), Text(name) >> ]
           /\ emitted = <<>>

C7_Witness ==
    /\ Imported /\ Registered
    /\ Handle.__version__ = Absent /\ Handle.__VERSION__ = None
    /\ ~raise_on_missing /\ on_version = "ignore"
    /\ result.kind = "ImportError"

\* C8: for every non-empty installed version string of a registered module
\* and every documented on_version, the call ends in a documented outcome:
\* the handle, None with a warning, or an ImportError.
C8_ComparisonTolerant ==
    (Imported /\ Registered /\ Reported.kind = "str" /\ Reported.val # <<>>
        /\ on_version \in {"raise", "warn", "ignore"})
        => \/ result.kind \in {"module", "ImportError"}
           \/ result.kind = "None" /\ emitted # <<>>

\* C9: __version__ decides the disposition whenever it is a string;
\* __VERSION__ decides it only when __version__ is absent or None.
DispositionOf(v) ==
    /\ IsEnough(v) => ReturnedHandle
    /\ (IsUnder(v) /\ on_version = "raise")
          => (result.kind = "ImportError" /\ MsgHas(result.msg, Chars(v)))
    /\ (IsUnder(v) /\ on_version = "warn")
          => (result.kind = "None" /\ Len(emitted) = 1 /\ MsgHas(emitted[1].message, Chars(v)))
    /\ (IsUnder(v) /\ on_version = "ignore") => ReturnedHandle

C9_LowercaseFirst ==
    (Imported /\ Registered)
        => /\ Handle.__version__.kind = "str" => DispositionOf(Handle.__version__.val)
           /\ (Handle.__version__.kind # "str" /\ Handle.__VERSION__.kind = "str")
                 => DispositionOf(Handle.__VERSION__.val)

C9_Witness ==
    /\ Imported /\ Registered
    /\ Handle.__version__ = StrVal(<<"0", ".", "2", "0", ".", "0">>)
    /\ Handle.__VERSION__ = StrVal(<<"0", ".", "2", "5", ".", "3">>)
    /\ on_version = "raise"
    /\ result.kind = "ImportError"

\* C10: an on_version outside {raise, warn, ignore} changes nothing unless the
\* name is registered and the installed version is below the minimum; there,
\* and only there, the call fails with an AssertionError.
C10_LateValidation ==
    /\ (Done /\ on_version \notin {"raise", "warn", "ignore"}) =>
          /\ (Imported /\ ~Registered) => ReturnedHandle
          /\ (Imported /\ Registered /\ Reported.kind = "str" /\ IsEnough(Reported.val))
                => ReturnedHandle
          /\ (ImportFailed /\ raise_on_missing) => result.kind = "ImportError"
          /\ (ImportFailed /\ ~raise_on_missing) => result.kind = "None"
          /\ UnderVersion => result = [kind |-> "AssertionError", module |-> {}, msg |-> <<>>]
    /\ (result.kind = "AssertionError")
          => (UnderVersion /\ on_version \notin {"raise", "warn", "ignore"})

C10_Witness ==
    /\ UnderVersion /\ on_version = "error"
    /\ Reported.val = <<"0", ".", "2", "0", ".", "0">>
    /\ result.kind = "AssertionError"

====
